---- MODULE Spec2Model ----
(***************************************************************************)
(* Model of app_httpd.cpp: the motor driver functions, the control         *)
(* handlers served by the port-80 server task, capture_handler and the     *)
(* MJPEG stream_handler loop served by the port-81 server task.            *)
(***************************************************************************)
EXTENDS Integers, Sequences, FiniteSets, TLC

\* ---------------------------------------------------------------- bounds
MaxFrames == 3      \* acquire calls one stream connection is followed for
MaxLen == 2         \* frame / converted-buffer lengths are drawn from 1..MaxLen
NumFb == 2          \* frame buffers in the camera driver's pool
NumHeap == 2        \* heap blocks frame2jpg can hand out

\* ------------------------------------------------------- program constants
LEFT_M0 == 13
LEFT_M1 == 12
RIGHT_M0 == 14
RIGHT_M1 == 15
DefaultSpeed == 150
MaxDuty == 255

Pins == {LEFT_M0, LEFT_M1, RIGHT_M0, RIGHT_M1}
Speeds == {0, DefaultSpeed, MaxDuty}
Lens == 1..MaxLen        \* byte counts of JPEG data
RawLen == MaxLen + 1     \* byte count of a raw frame: never a JPEG length
FrameBufs == 1..NumFb
HeapBufs == 1..NumHeap
ESP_OK == "ESP_OK"
ESP_FAIL == "ESP_FAIL"
PIXFORMAT_JPEG == "JPEG"
PIXFORMAT_RAW == "RAW"

Tasks == {"ctrl", "strm"}
DirUris == {"go", "back", "left", "right", "stop"}
LedUris == {"ledon", "ledoff"}
ControlUris == DirUris \cup LedUris
Uris == ControlUris \cup {"index", "capture", "stream"}
Fns == {"robot_fwd", "robot_back", "robot_left", "robot_right", "robot_stop"}

VARIABLES
  speed,        \* int speed
  pwm,          \* duty of each PWM pin
  led,          \* level of the light GPIO
  req,          \* per server task: request accepted, not yet dispatched
  cur,          \* per server task: uri of the handler it is running
  pc,           \* per server task: position inside a control handler
  m_fn,         \* per task: robot_* function it is executing / executed last
  m_pc,         \* per task: ledcWrite calls of m_fn done (5 = returned)
  lastWriter,   \* per pin: task whose ledcWrite set the current duty
  fbHeld,       \* camera driver: frame buffers handed out, not returned
  heapLive,     \* heap blocks allocated by frame2jpg, not freed
  s_pc, s_fb, s_res, s_jpg_buf, s_jpg_buf_len, s_part_len,  \* stream_handler
  sAcqCalls,    \* esp_camera_fb_get calls made by the stream loop
  sIters,       \* loop iterations that ended with res == ESP_OK
  sFail,        \* first failure of the stream loop
  sLog,         \* calls made by the stream loop since its latest acquire
  wire,         \* chunk writes attempted on the stream connection
  c_pc, c_fb, c_res, c_jpg_buf, c_jpg_buf_len,              \* capture_handler
  cLog          \* calls made by capture_handler for the current request

motorVars == <<speed, pwm, led, m_fn, m_pc, lastWriter>>
srvVars == <<req, cur, pc>>
camVars == <<fbHeld, heapLive>>
streamVars == <<s_pc, s_fb, s_res, s_jpg_buf, s_jpg_buf_len, s_part_len,
                sAcqCalls, sIters, sFail, sLog, wire>>
captureVars == <<c_pc, c_fb, c_res, c_jpg_buf, c_jpg_buf_len, cLog>>
vars == <<motorVars, srvVars, camVars, streamVars, captureVars>>

\* ------------------------------------------------------------ motor driver
\* Each robot_* function is the sequence of its ledcWrite(pin, duty) calls.
robot_stop(spd) ==
  << <<LEFT_M0, 0>>, <<LEFT_M1, 0>>, <<RIGHT_M0, 0>>, <<RIGHT_M1, 0>> >>

robot_left_leftSideOnly(spd) ==
  << <<LEFT_M0, 0>>, <<LEFT_M1, spd>>, <<LEFT_M0, 0>>, <<LEFT_M1, spd>> >>

robot_left(spd) ==
  << <<LEFT_M0, 0>>, <<LEFT_M1, spd>>, <<RIGHT_M0, 0>>, <<RIGHT_M1, spd>> >>

robot_right_oneChannel(spd) ==
  << <<LEFT_M0, spd>>, <<LEFT_M1, 0>>, <<RIGHT_M0, 0>>, <<RIGHT_M1, 0>> >>

robot_right(spd) ==
  << <<LEFT_M0, spd>>, <<LEFT_M1, 0>>, <<RIGHT_M0, spd>>, <<RIGHT_M1, 0>> >>

robot_fwd_bothBackward(spd) ==
  << <<LEFT_M0, spd>>, <<LEFT_M1, 0>>, <<RIGHT_M0, spd>>, <<RIGHT_M1, 0>> >>

robot_fwd(spd) ==
  << <<LEFT_M0, spd>>, <<LEFT_M1, 0>>, <<RIGHT_M0, 0>>, <<RIGHT_M1, spd>> >>

robot_back_wrongPin(spd) ==
  << <<LEFT_M0, 0>>, <<LEFT_M1, spd>>, <<LEFT_M0, spd>>, <<RIGHT_M1, 0>> >>

robot_back(spd) ==
  << <<LEFT_M0, 0>>, <<LEFT_M1, spd>>, <<RIGHT_M0, spd>>, <<RIGHT_M1, 0>> >>

Writes(fn, spd) ==
  CASE fn = "robot_stop" -> robot_stop(spd)
    [] fn = "robot_left" -> robot_left(spd)
    [] fn = "robot_right" -> robot_right(spd)
    [] fn = "robot_fwd" -> robot_fwd(spd)
    [] fn = "robot_back" -> robot_back(spd)

\* ledcWrite(pin, duty): one register update of one channel.
ledcWrite(p, pin, duty) == [p EXCEPT ![pin] = duty]

RECURSIVE RunWrites(_, _)
RunWrites(ws, p) ==
  IF ws = <<>> THEN p
  ELSE RunWrites(Tail(ws), ledcWrite(p, Head(ws)[1], Head(ws)[2]))

\* Channel state a whole robot_* call leaves, starting from p.
RunFn(fn, spd, p) == RunWrites(Writes(fn, spd), p)

\* robot_setup ends with robot_stop().
robot_setup == RunFn("robot_stop", DefaultSpeed, [q \in Pins |-> 0])

\* Which robot_* function each direction handler calls.
go_handler == "robot_fwd"
back_handler == "robot_back"
left_handler == "robot_left"
right_handler == "robot_right"
stop_handler == "robot_stop"

HandlerFn(u) ==
  CASE u = "go" -> go_handler
    [] u = "back" -> back_handler
    [] u = "left" -> left_handler
    [] u = "right" -> right_handler
    [] u = "stop" -> stop_handler

\* Level each light handler writes with digitalWrite(gpLed, ...).
ledon_handler == "HIGH"
ledoff_handler == "LOW"

\* ----------------------------------------------------------- server wiring
\* startCameraServer: the server instance (task) each uri is registered on.
ServerOf_oneServer(u) == "ctrl"

ServerOf(u) == IF u = "stream" THEN "strm" ELSE "ctrl"


\* --------------------------------------------------------- values and logs
NoFrame == [id |-> 0, format |-> "none", len |-> 0]
NullPtr == [kind |-> "null", id |-> 0]
FbPtr(b) == [kind |-> "fb", id |-> b]
HeapPtr(h) == [kind |-> "heap", id |-> h]
\* One logged call: its pointer argument, its length argument, its result,
\* and whether the pointer was valid for that call when it was made.
Call(c, p, n, ok, valid) ==
  [call |-> c, ptr |-> p, len |-> n, ok |-> ok, valid |-> valid]

Lowest(S) == CHOOSE x \in S : \A y \in S : x <= y

\* esp_camera_fb_get(): NULL, or a free buffer of the pool holding a frame.
esp_camera_fb_get(held) ==
  {NoFrame} \cup
  (IF FrameBufs \ held = {} THEN {}
   ELSE {[id |-> Lowest(FrameBufs \ held), format |-> PIXFORMAT_JPEG,
           len |-> n] : n \in Lens}
        \cup {[id |-> Lowest(FrameBufs \ held), format |-> PIXFORMAT_RAW,
                len |-> RawLen]})

\* frame2jpg(): false and *out untouched, or true with a fresh heap block.
frame2jpg(live) ==
  {[ok |-> FALSE, ptr |-> NullPtr, len |-> 0]} \cup
  (IF HeapBufs \ live = {} THEN {}
   ELSE {[ok |-> TRUE, ptr |-> HeapPtr(Lowest(HeapBufs \ live)), len |-> n] :
           n \in Lens})

\* A pointer a write may read: a held frame's bytes or a live heap block.
Valid(p, held, live) ==
  \/ p.kind = "fb" /\ p.id \in held
  \/ p.kind = "heap" /\ p.id \in live

\* ------------------------------------------------------------ initial state
\* The locals of a handler that is not running, and what is logged of it.
StreamIdle ==
  /\ s_pc = "idle" /\ s_fb = NoFrame /\ s_res = ESP_OK
  /\ s_jpg_buf = NullPtr /\ s_jpg_buf_len = 0 /\ s_part_len = 0
  /\ sAcqCalls = 0 /\ sIters = 0 /\ sFail = "none"
  /\ sLog = <<>> /\ wire = <<>>

CaptureIdle ==
  /\ c_pc = "idle" /\ c_fb = NoFrame /\ c_res = ESP_OK
  /\ c_jpg_buf = NullPtr /\ c_jpg_buf_len = 0
  /\ cLog = <<>>

StreamReset ==
  /\ s_pc' = "idle" /\ s_fb' = NoFrame /\ s_res' = ESP_OK
  /\ s_jpg_buf' = NullPtr /\ s_jpg_buf_len' = 0 /\ s_part_len' = 0
  /\ sAcqCalls' = 0 /\ sIters' = 0 /\ sFail' = "none"
  /\ sLog' = <<>> /\ wire' = <<>>

CaptureReset ==
  /\ c_pc' = "idle" /\ c_fb' = NoFrame /\ c_res' = ESP_OK
  /\ c_jpg_buf' = NullPtr /\ c_jpg_buf_len' = 0
  /\ cLog' = <<>>

InitRest ==
  /\ pwm = robot_setup
  /\ led = "LOW"
  /\ req = [t \in Tasks |-> "none"]
  /\ cur = [t \in Tasks |-> "none"]
  /\ pc = [t \in Tasks |-> "idle"]
  /\ m_fn = [t \in Tasks |-> "none"]
  /\ m_pc = [t \in Tasks |-> 0]
  /\ lastWriter = [q \in Pins |-> "setup"]
  /\ fbHeld = {}
  /\ heapLive = {}
  /\ StreamIdle
  /\ CaptureIdle

\* int speed = 150;
Init == speed = DefaultSpeed /\ InitRest

\* speed is a plain global: any duty the 8-bit channels take may be configured.
MotorInit == speed \in Speeds /\ InitRest

\* ------------------------------------------------- request arrival, dispatch
\* A client's GET for uri u reaches the server instance u is registered on.
Arrive(u) ==
  /\ req[ServerOf(u)] = "none"
  /\ req' = [req EXCEPT ![ServerOf(u)] = u]
  /\ UNCHANGED <<cur, pc, motorVars, camVars, streamVars, captureVars>>

\* A server task is one thread: it calls the next handler only when idle.
Dispatch(t) ==
  /\ cur[t] = "none"
  /\ req[t] # "none"
  /\ cur' = [cur EXCEPT ![t] = req[t]]
  /\ req' = [req EXCEPT ![t] = "none"]
  /\ pc' = [pc EXCEPT ![t] = IF req[t] \in ControlUris THEN "call"
                              ELSE IF req[t] = "index" THEN "send" ELSE "idle"]
  /\ IF req[t] \in DirUris
       THEN /\ m_fn' = [m_fn EXCEPT ![t] = HandlerFn(req[t])]
            /\ m_pc' = [m_pc EXCEPT ![t] = 0]
       ELSE UNCHANGED <<m_fn, m_pc>>
  /\ IF req[t] = "stream"
       THEN /\ s_pc' = "settype"
            /\ UNCHANGED <<s_fb, s_res, s_jpg_buf, s_jpg_buf_len, s_part_len,
                           sAcqCalls, sIters, sFail, sLog, wire>>
       ELSE UNCHANGED streamVars
  /\ IF req[t] = "capture"
       THEN /\ c_pc' = "get"
            /\ UNCHANGED <<c_fb, c_res, c_jpg_buf, c_jpg_buf_len, cLog>>
       ELSE UNCHANGED captureVars
  /\ UNCHANGED <<speed, pwm, led, lastWriter, camVars>>

\* ---------------------------------------------------------- motor commands
\* The next ledcWrite of the robot_* function task t is inside.
LedcWriteStep(t) ==
  /\ m_fn[t] \in Fns
  /\ m_pc[t] < 4
  /\ LET w == Writes(m_fn[t], speed)[m_pc[t] + 1] IN
       /\ pwm' = ledcWrite(pwm, w[1], w[2])
       /\ lastWriter' = [lastWriter EXCEPT ![w[1]] = t]
  /\ m_pc' = [m_pc EXCEPT ![t] = m_pc[t] + 1]
  /\ UNCHANGED <<speed, led, m_fn, srvVars, camVars, streamVars, captureVars>>

\* robot_* prints its message and returns to the handler that called it.
RobotReturn(t) ==
  /\ m_fn[t] \in Fns
  /\ m_pc[t] = 4
  /\ m_pc' = [m_pc EXCEPT ![t] = 5]
  /\ pc' = [pc EXCEPT ![t] = IF pc[t] = "call" THEN "send" ELSE pc[t]]
  /\ UNCHANGED <<speed, pwm, led, m_fn, lastWriter, req, cur,
                 camVars, streamVars, captureVars>>

\* ledon_handler / ledoff_handler: digitalWrite(gpLed, level).
DigitalWrite(t) ==
  /\ cur[t] \in LedUris
  /\ pc[t] = "call"
  /\ led' = IF cur[t] = "ledon" THEN ledon_handler ELSE ledoff_handler
  /\ pc' = [pc EXCEPT ![t] = "send"]
  /\ UNCHANGED <<speed, pwm, m_fn, m_pc, lastWriter, req, cur,
                 camVars, streamVars, captureVars>>

\* httpd_resp_send(req, "OK", 2) (the page for index_handler), then return.
ControlSend(t) ==
  /\ cur[t] \in ControlUris \cup {"index"}
  /\ pc[t] = "send"
  /\ cur' = [cur EXCEPT ![t] = "none"]
  /\ pc' = [pc EXCEPT ![t] = "idle"]
  /\ m_fn' = [m_fn EXCEPT ![t] = "none"]
  /\ m_pc' = [m_pc EXCEPT ![t] = 0]
  /\ UNCHANGED <<speed, pwm, led, lastWriter, req,
                 camVars, streamVars, captureVars>>


\* ------------------------------------------------------------ stream_handler
StreamRunning == \E t \in Tasks : cur[t] = "stream"
notStream == <<motorVars, srvVars, captureVars>>

\* httpd_resp_set_type(req, _STREAM_CONTENT_TYPE); if(res != ESP_OK) return res;
StreamSetType(ok) ==
  /\ StreamRunning
  /\ s_pc = "settype"
  /\ IF ok THEN s_pc' = "get" /\ UNCHANGED <<s_res, sFail>>
     ELSE s_pc' = "done" /\ s_res' = ESP_FAIL /\ sFail' = "settype"
  /\ UNCHANGED <<s_fb, s_jpg_buf, s_jpg_buf_len, s_part_len, sAcqCalls,
                 sIters, sLog, wire, camVars, notStream>>

\* fb = esp_camera_fb_get(); a JPEG frame lends its bytes to _jpg_buf.
StreamGet_returnsJpegEarly(f) ==
  /\ StreamRunning
  /\ s_pc = "get"
  /\ sAcqCalls < MaxFrames
  /\ f \in esp_camera_fb_get(fbHeld)
  /\ sAcqCalls' = sAcqCalls + 1
  /\ IF f = NoFrame
       THEN /\ s_res' = ESP_FAIL /\ sFail' = "acquire"
            /\ s_pc' = "hdr" /\ s_fb' = f
            /\ sLog' = << Call("fb_get", NullPtr, f.len, FALSE, TRUE) >>
            /\ UNCHANGED <<s_jpg_buf, s_jpg_buf_len, fbHeld>>
       ELSE /\ UNCHANGED <<s_res, sFail>>
            /\ IF f.format # PIXFORMAT_JPEG
                 THEN /\ s_pc' = "convert" /\ s_fb' = f
                      /\ fbHeld' = fbHeld \cup {f.id}
                      /\ sLog' = << Call("fb_get", FbPtr(f.id), f.len,
                                         TRUE, TRUE) >>
                      /\ UNCHANGED <<s_jpg_buf, s_jpg_buf_len>>
                 ELSE /\ s_pc' = "hdr" /\ s_fb' = NoFrame
                      /\ s_jpg_buf_len' = f.len
                      /\ s_jpg_buf' = FbPtr(f.id)
                      /\ sLog' = << Call("fb_get", FbPtr(f.id), f.len,
                                         TRUE, TRUE),
                                    Call("fb_return", FbPtr(f.id), 0,
                                         TRUE, TRUE) >>
                      /\ UNCHANGED fbHeld
  /\ UNCHANGED <<s_part_len, sIters, wire, heapLive, notStream>>

StreamGet(f) ==
  /\ StreamRunning
  /\ s_pc = "get"
  /\ sAcqCalls < MaxFrames
  /\ f \in esp_camera_fb_get(fbHeld)
  /\ s_fb' = f
  /\ sAcqCalls' = sAcqCalls + 1
  /\ sLog' = << Call("fb_get", IF f = NoFrame THEN NullPtr ELSE FbPtr(f.id),
                     f.len, f # NoFrame, TRUE) >>
  /\ IF f = NoFrame
       THEN /\ s_res' = ESP_FAIL /\ sFail' = "acquire"
            /\ s_pc' = "hdr"
            /\ UNCHANGED <<s_jpg_buf, s_jpg_buf_len, fbHeld>>
       ELSE /\ fbHeld' = fbHeld \cup {f.id}
            /\ UNCHANGED <<s_res, sFail>>
            /\ IF f.format # PIXFORMAT_JPEG
                 THEN s_pc' = "convert" /\ UNCHANGED <<s_jpg_buf, s_jpg_buf_len>>
                 ELSE /\ s_pc' = "hdr"
                      /\ s_jpg_buf_len' = f.len
                      /\ s_jpg_buf' = FbPtr(f.id)
  /\ UNCHANGED <<s_part_len, sIters, wire, heapLive, notStream>>

\* frame2jpg(fb, 80, &_jpg_buf, &_jpg_buf_len); esp_camera_fb_return(fb);
\* fb = NULL; if(!jpeg_converted) res = ESP_FAIL;
StreamConvert_keepsFbOnFail(r) ==
  /\ StreamRunning
  /\ s_pc = "convert"
  /\ r \in frame2jpg(heapLive)
  /\ IF r.ok
       THEN /\ s_jpg_buf' = r.ptr /\ s_jpg_buf_len' = r.len
            /\ heapLive' = heapLive \cup {r.ptr.id}
            /\ fbHeld' = fbHeld \ {s_fb.id}
            /\ sLog' = sLog \o << Call("frame2jpg", r.ptr, r.len, r.ok, TRUE),
                                  Call("fb_return", FbPtr(s_fb.id), 0, TRUE,
                                       s_fb.id \in fbHeld) >>
            /\ s_fb' = NoFrame
            /\ UNCHANGED <<s_res, sFail>>
       ELSE /\ s_res' = ESP_FAIL /\ sFail' = "convert"
            /\ sLog' = Append(sLog, Call("frame2jpg", r.ptr, r.len, r.ok, TRUE))
            /\ UNCHANGED <<s_jpg_buf, s_jpg_buf_len, heapLive, fbHeld, s_fb>>
  /\ s_pc' = "hdr"
  /\ UNCHANGED <<s_part_len, sAcqCalls, sIters, wire, notStream>>

StreamConvert(r) ==
  /\ StreamRunning
  /\ s_pc = "convert"
  /\ r \in frame2jpg(heapLive)
  /\ IF r.ok
       THEN /\ s_jpg_buf' = r.ptr /\ s_jpg_buf_len' = r.len
            /\ heapLive' = heapLive \cup {r.ptr.id}
            /\ UNCHANGED <<s_res, sFail>>
       ELSE /\ s_res' = ESP_FAIL /\ sFail' = "convert"
            /\ UNCHANGED <<s_jpg_buf, s_jpg_buf_len, heapLive>>
  /\ fbHeld' = fbHeld \ {s_fb.id}
  /\ sLog' = sLog \o << Call("frame2jpg", r.ptr, r.len, r.ok, TRUE),
                        Call("fb_return", FbPtr(s_fb.id), 0, TRUE,
                             s_fb.id \in fbHeld) >>
  /\ s_fb' = NoFrame
  /\ s_pc' = "hdr"
  /\ UNCHANGED <<s_part_len, sAcqCalls, sIters, wire, notStream>>

\* _STREAM_PART is 42 characters, the %u conversion, then 4 characters;
\* part_buf is given to snprintf with size 64.
PartPrefixLen == 42
PartSuffixLen == 4
PartBufSize == 64

RECURSIVE Digits(_)
Digits(n) == IF n < 10 THEN <<n>> ELSE Append(Digits(n \div 10), n % 10)

RECURSIVE ParseU(_)
ParseU(ds) ==
  IF ds = <<>> THEN 0
  ELSE ParseU(SubSeq(ds, 1, Len(ds) - 1)) * 10 + ds[Len(ds)]

\* snprintf(part_buf, size, _STREAM_PART, n): at most size - 1 characters
\* land in the buffer; the value returned is the untruncated length.
snprintf_oneDigitShort(size, n) ==
  [digits |-> SubSeq(Digits(n), 1, Len(Digits(n)) - 1),
   hlen |-> PartPrefixLen + Len(Digits(n)) + PartSuffixLen]

snprintf(size, n) ==
  LET room == size - 1 - PartPrefixLen
      kept == IF room < 0 THEN 0
              ELSE IF room < Len(Digits(n)) THEN room ELSE Len(Digits(n))
  IN [digits |-> SubSeq(Digits(n), 1, kept),
      hlen |-> PartPrefixLen + Len(Digits(n)) + PartSuffixLen]

\* The number a client reads in the Content-Length line of a part header.
ContentLength(part) == ParseU(part.digits)

\* if(res == ESP_OK): the guard of each httpd_resp_send_chunk of the loop.
ChunkGuard_always(res) == TRUE

ChunkGuard(res) == res = ESP_OK

\* One httpd_resp_send_chunk of the loop body, made only while res == ESP_OK.
\* kind: the part header (snprintf of _STREAM_PART with _jpg_buf_len), the
\* JPEG bytes, or _STREAM_BOUNDARY.
StreamChunk(kind, next, ok) ==
  /\ StreamRunning
  /\ s_pc = kind
  /\ s_pc' = next
  /\ IF ChunkGuard(s_res)
       THEN /\ s_res' = IF ok THEN ESP_OK ELSE ESP_FAIL
            /\ sFail' = IF ok THEN sFail ELSE kind
            /\ s_part_len' =
                 IF kind = "hdr"
                   THEN ContentLength(snprintf(PartBufSize, s_jpg_buf_len))
                   ELSE s_part_len
            /\ sLog' = Append(sLog,
                 Call(kind,
                      IF kind = "body" THEN s_jpg_buf ELSE NullPtr,
                      CASE kind = "hdr" ->
                             ContentLength(snprintf(PartBufSize, s_jpg_buf_len))
                        [] kind = "body" -> s_jpg_buf_len
                        [] OTHER -> 0,
                      ok,
                      kind = "body" => Valid(s_jpg_buf, fbHeld, heapLive)))
            /\ wire' = Append(wire, kind)
       ELSE UNCHANGED <<s_res, sFail, s_part_len, sLog, wire>>
  /\ UNCHANGED <<s_fb, s_jpg_buf, s_jpg_buf_len, sAcqCalls, sIters,
                 camVars, notStream>>

\* The chunk order of one loop iteration.
StreamHdr(ok) == StreamChunk("hdr", "body", ok)
StreamBody(ok) == StreamChunk("body", "bnd", ok)
StreamBnd(ok) == StreamChunk("bnd", "cleanup", ok)

\* Which release the end of an iteration makes:
\* if(fb){ esp_camera_fb_return(fb); ... } else if(_jpg_buf){ free(_jpg_buf); ... }
CleanupOp_noReturn(fb, buf) ==
  IF buf # NullPtr THEN "free" ELSE "none"

CleanupOp_noFree(fb, buf) ==
  IF fb # NoFrame THEN "fb_return" ELSE "none"

CleanupOp(fb, buf) ==
  IF fb # NoFrame THEN "fb_return"
  ELSE IF buf # NullPtr THEN "free" ELSE "none"

\* if(res != ESP_OK) break;
LoopExit_never(res) == FALSE

LoopExit_always(res) == TRUE

LoopExit(res) == res # ESP_OK

\* The end of one loop iteration: the release, the NULL assignments, the break.
StreamCleanup ==
  /\ StreamRunning
  /\ s_pc = "cleanup"
  /\ CASE CleanupOp(s_fb, s_jpg_buf) = "fb_return" ->
            /\ fbHeld' = fbHeld \ {s_fb.id}
            /\ sLog' = Append(sLog, Call("fb_return", FbPtr(s_fb.id), 0,
                                         TRUE, s_fb.id \in fbHeld))
            /\ UNCHANGED heapLive
       [] CleanupOp(s_fb, s_jpg_buf) = "free" ->
            /\ heapLive' = IF s_jpg_buf.kind = "heap"
                             THEN heapLive \ {s_jpg_buf.id} ELSE heapLive
            /\ sLog' = Append(sLog, Call("free", s_jpg_buf, 0, TRUE,
                                 s_jpg_buf.kind = "heap"
                                   /\ s_jpg_buf.id \in heapLive))
            /\ UNCHANGED fbHeld
       [] OTHER -> UNCHANGED <<fbHeld, heapLive, sLog>>
  /\ s_fb' = IF CleanupOp(s_fb, s_jpg_buf) = "fb_return" THEN NoFrame ELSE s_fb
  /\ s_jpg_buf' = IF CleanupOp(s_fb, s_jpg_buf) = "none" THEN s_jpg_buf
                  ELSE NullPtr
  /\ IF LoopExit(s_res)
       THEN s_pc' = "done" /\ UNCHANGED sIters
       ELSE s_pc' = "get" /\ sIters' = IF s_res = ESP_OK THEN sIters + 1
                                       ELSE sIters
  /\ UNCHANGED <<s_res, s_jpg_buf_len, s_part_len, sAcqCalls, sFail, wire,
                 notStream>>

\* return res; the locals die and the server task is free for its next request.
StreamReturn(t) ==
  /\ cur[t] = "stream"
  /\ s_pc = "done"
  /\ StreamReset
  /\ cur' = [cur EXCEPT ![t] = "none"]
  /\ UNCHANGED <<req, pc, motorVars, camVars, captureVars>>


\* ----------------------------------------------------------- capture_handler
CaptureRunning == \E t \in Tasks : cur[t] = "capture"
notCapture == <<motorVars, srvVars, streamVars>>

\* fb = esp_camera_fb_get(); on success the type and disposition headers
\* are set next.
CaptureGet(f) ==
  /\ CaptureRunning
  /\ c_pc = "get"
  /\ f \in esp_camera_fb_get(fbHeld)
  /\ c_fb' = f
  /\ cLog' = << Call("fb_get", IF f = NoFrame THEN NullPtr ELSE FbPtr(f.id),
                     f.len, f # NoFrame, TRUE) >>
  /\ IF f = NoFrame
       THEN c_pc' = "send500" /\ UNCHANGED fbHeld
       ELSE c_pc' = "send" /\ fbHeld' = fbHeld \cup {f.id}
  /\ UNCHANGED <<c_res, c_jpg_buf, c_jpg_buf_len, heapLive, notCapture>>

\* httpd_resp_send_500(req); return ESP_FAIL;
CaptureSend500_stopsMotors ==
  /\ CaptureRunning
  /\ c_pc = "send500"
  /\ cLog' = Append(cLog, Call("send_500", NullPtr, 0, TRUE, TRUE))
  /\ c_res' = ESP_FAIL
  /\ c_pc' = "done"
  /\ pwm' = RunFn("robot_stop", speed, pwm)
  /\ UNCHANGED <<c_fb, c_jpg_buf, c_jpg_buf_len, camVars,
                 speed, led, m_fn, m_pc, lastWriter, srvVars, streamVars>>

CaptureSend500 ==
  /\ CaptureRunning
  /\ c_pc = "send500"
  /\ cLog' = Append(cLog, Call("send_500", NullPtr, 0, TRUE, TRUE))
  /\ c_res' = ESP_FAIL
  /\ c_pc' = "done"
  /\ UNCHANGED <<c_fb, c_jpg_buf, c_jpg_buf_len, camVars, notCapture>>

\* The buffer and length capture_handler gives to httpd_resp_send:
\* (fb->buf, fb->len) for a JPEG frame, (_jpg_buf, _jpg_buf_len) otherwise.
CaptureBody_frameLen(fb, buf, buf_len) ==
  IF fb.format = PIXFORMAT_JPEG
    THEN [ptr |-> FbPtr(fb.id), len |-> fb.len]
    ELSE [ptr |-> buf, len |-> fb.len]

CaptureBody(fb, buf, buf_len) ==
  IF fb.format = PIXFORMAT_JPEG
    THEN [ptr |-> FbPtr(fb.id), len |-> fb.len]
    ELSE [ptr |-> buf, len |-> buf_len]

\* fb->format == PIXFORMAT_JPEG: res = httpd_resp_send(req, fb->buf, fb->len);
CaptureSendFb(ok) ==
  /\ CaptureRunning
  /\ c_pc = "send"
  /\ c_fb.format = PIXFORMAT_JPEG
  /\ c_res' = IF ok THEN ESP_OK ELSE ESP_FAIL
  /\ LET b == CaptureBody(c_fb, c_jpg_buf, c_jpg_buf_len) IN
       cLog' = Append(cLog, Call("send", b.ptr, b.len, ok,
                                 Valid(b.ptr, fbHeld, heapLive)))
  /\ c_pc' = "fb_return"
  /\ UNCHANGED <<c_fb, c_jpg_buf, c_jpg_buf_len, camVars, notCapture>>

\* Where capture_handler goes after a failed conversion: res = ESP_FAIL, then
\* on to esp_camera_fb_return(fb) like every other branch.
CaptureConvertFailNext_earlyReturn == "done"

CaptureConvertFailNext == "fb_return"

\* else: jpeg_converted = frame2jpg(fb, 80, &_jpg_buf, &_jpg_buf_len);
\* if(!jpeg_converted) res = ESP_FAIL;
CaptureConvert(r) ==
  /\ CaptureRunning
  /\ c_pc = "send"
  /\ c_fb.format # PIXFORMAT_JPEG
  /\ r \in frame2jpg(heapLive)
  /\ cLog' = Append(cLog, Call("frame2jpg", r.ptr, r.len, r.ok, TRUE))
  /\ IF r.ok
       THEN /\ c_jpg_buf' = r.ptr /\ c_jpg_buf_len' = r.len
            /\ heapLive' = heapLive \cup {r.ptr.id}
            /\ c_pc' = "send_jpg"
            /\ UNCHANGED c_res
       ELSE /\ c_res' = ESP_FAIL
            /\ c_pc' = CaptureConvertFailNext
            /\ UNCHANGED <<c_jpg_buf, c_jpg_buf_len, heapLive>>
  /\ UNCHANGED <<c_fb, fbHeld, notCapture>>

\* res = httpd_resp_send(req, _jpg_buf, _jpg_buf_len); free(_jpg_buf);
CaptureSendJpg(ok) ==
  /\ CaptureRunning
  /\ c_pc = "send_jpg"
  /\ c_res' = IF ok THEN ESP_OK ELSE ESP_FAIL
  /\ LET b == CaptureBody(c_fb, c_jpg_buf, c_jpg_buf_len) IN
       cLog' = cLog \o
         << Call("send", b.ptr, b.len, ok, Valid(b.ptr, fbHeld, heapLive)),
            Call("free", c_jpg_buf, 0, TRUE,
                 c_jpg_buf.kind = "heap" /\ c_jpg_buf.id \in heapLive) >>
  /\ heapLive' = IF c_jpg_buf.kind = "heap"
                   THEN heapLive \ {c_jpg_buf.id} ELSE heapLive
  /\ c_pc' = "fb_return"
  /\ UNCHANGED <<c_fb, c_jpg_buf, c_jpg_buf_len, fbHeld, notCapture>>

\* esp_camera_fb_return(fb);
CaptureFbReturn ==
  /\ CaptureRunning
  /\ c_pc = "fb_return"
  /\ fbHeld' = fbHeld \ {c_fb.id}
  /\ cLog' = Append(cLog, Call("fb_return", FbPtr(c_fb.id), 0, TRUE,
                               c_fb.id \in fbHeld))
  /\ c_pc' = "done"
  /\ UNCHANGED <<c_fb, c_res, c_jpg_buf, c_jpg_buf_len, heapLive, notCapture>>

\* return res; the locals die and the server task is free for its next request.
CaptureReturn(t) ==
  /\ cur[t] = "capture"
  /\ c_pc = "done"
  /\ CaptureReset
  /\ cur' = [cur EXCEPT ![t] = "none"]
  /\ UNCHANGED <<req, pc, motorVars, camVars, streamVars>>

\* ------------------------------------------------------------ specifications
\* What a server task does next: start a handler or run the one it is in.
ControlStep(t) ==
  \/ Dispatch(t)
  \/ LedcWriteStep(t)
  \/ RobotReturn(t)
  \/ DigitalWrite(t)
  \/ ControlSend(t)

StreamStep ==
  \/ \E ok \in BOOLEAN : StreamSetType(ok)
  \/ \E f \in esp_camera_fb_get(fbHeld) : StreamGet(f)
  \/ \E r \in frame2jpg(heapLive) : StreamConvert(r)
  \/ \E ok \in BOOLEAN : StreamHdr(ok)
  \/ \E ok \in BOOLEAN : StreamBody(ok)
  \/ \E ok \in BOOLEAN : StreamBnd(ok)
  \/ StreamCleanup

CaptureStep ==
  \/ \E f \in esp_camera_fb_get(fbHeld) : CaptureGet(f)
  \/ CaptureSend500
  \/ \E ok \in BOOLEAN : CaptureSendFb(ok)
  \/ \E r \in frame2jpg(heapLive) : CaptureConvert(r)
  \/ \E ok \in BOOLEAN : CaptureSendJpg(ok)
  \/ CaptureFbReturn

\* Every step of the task that runs t's handlers.
TaskStep(t) ==
  \/ ControlStep(t)
  \/ cur[t] = "stream" /\ (StreamStep \/ StreamReturn(t))
  \/ cur[t] = "capture" /\ (CaptureStep \/ CaptureReturn(t))

Next ==
  \/ \E u \in Uris : Arrive(u)
  \/ \E t \in Tasks : TaskStep(t)

Spec == Init /\ [][Next]_vars


\* The stream connection alone: the port-81 server and its one handler.
StreamNext ==
  \/ Arrive("stream")
  \/ Dispatch(ServerOf("stream"))
  \/ StreamStep
  \/ StreamReturn(ServerOf("stream"))

StreamSpec == Init /\ [][StreamNext]_vars

\* The same, with the port-81 server task always getting to run its next
\* step: the handler is straight-line code on a task of its own.
StreamFairSpec == StreamSpec /\ WF_vars(TaskStep(ServerOf("stream")))

\* The two users of the camera, each on the task of its server.
CamNext ==
  \/ Arrive("stream")
  \/ Arrive("capture")
  \/ \E t \in Tasks : Dispatch(t)
  \/ StreamStep
  \/ StreamReturn(ServerOf("stream"))
  \/ CaptureStep
  \/ CaptureReturn(ServerOf("capture"))

CamSpec == Init /\ [][CamNext]_vars

\* The port-80 server alone, with every handler registered on it.
Port80Next ==
  \/ \E u \in Uris \ {"stream"} : Arrive(u)
  \/ Dispatch(ServerOf("go"))
  \/ LedcWriteStep(ServerOf("go"))
  \/ RobotReturn(ServerOf("go"))
  \/ DigitalWrite(ServerOf("ledon"))
  \/ ControlSend(ServerOf("go"))
  \/ CaptureStep
  \/ CaptureReturn(ServerOf("capture"))

Port80Spec == MotorInit /\ [][Port80Next]_vars

\* Control requests beside a stream connection, each server task scheduled
\* fairly (the two httpd tasks have the same priority).  The client has one
\* control request in flight at a time, and the camera delivers JPEG frames
\* of one length or fails.
LiveArrive(u) ==
  /\ u \in ControlUris => cur[ServerOf(u)] \notin ControlUris
  /\ Arrive(u)

LiveFrames ==
  {f \in esp_camera_fb_get(fbHeld) : f.format # PIXFORMAT_RAW /\ f.len <= 1}

LiveNext ==
  \/ \E u \in ControlUris \cup {"stream"} : LiveArrive(u)
  \/ \E t \in Tasks : Dispatch(t)
  \/ \E t \in Tasks : LedcWriteStep(t)
  \/ \E t \in Tasks : RobotReturn(t)
  \/ \E t \in Tasks : DigitalWrite(t)
  \/ \E t \in Tasks : ControlSend(t)
  \/ \E ok \in BOOLEAN : StreamSetType(ok)
  \/ \E f \in LiveFrames : StreamGet(f)
  \/ \E ok \in BOOLEAN : StreamHdr(ok)
  \/ \E ok \in BOOLEAN : StreamBody(ok)
  \/ \E ok \in BOOLEAN : StreamBnd(ok)
  \/ StreamCleanup
  \/ \E t \in Tasks : StreamReturn(t)

LiveSpec ==
  Init /\ [][LiveNext]_vars /\ \A t \in Tasks : WF_vars(TaskStep(t))

\* Every endpoint of both servers: the port-80 handlers one at a time, beside
\* a stream connection on port 81 fed as in LiveSpec.  A client sends a
\* server its next request once that server has answered the previous one.
EndpointArrive(u) ==
  /\ cur[ServerOf(u)] = "none"
  /\ Arrive(u)

EndpointNext ==
  \/ \E u \in Uris : EndpointArrive(u)
  \/ \E t \in Tasks : Dispatch(t)
  \/ LedcWriteStep(ServerOf("go"))
  \/ RobotReturn(ServerOf("go"))
  \/ DigitalWrite(ServerOf("ledon"))
  \/ ControlSend(ServerOf("index"))
  \/ CaptureStep
  \/ CaptureReturn(ServerOf("capture"))
  \/ \E ok \in BOOLEAN : StreamSetType(ok)
  \/ \E f \in LiveFrames : StreamGet(f)
  \/ \E ok \in BOOLEAN : StreamHdr(ok)
  \/ \E ok \in BOOLEAN : StreamBody(ok)
  \/ \E ok \in BOOLEAN : StreamBnd(ok)
  \/ StreamCleanup
  \/ StreamReturn(ServerOf("stream"))

EndpointSpec == Init /\ [][EndpointNext]_vars

\* Two tasks inside robot_* functions at the same time, from any channel
\* state a finished command leaves: the functions take no lock.
OverlapInit ==
  /\ speed \in Speeds
  /\ \E f \in Fns : pwm = RunFn(f, speed, robot_setup)
  /\ led = "LOW"
  /\ req = [t \in Tasks |-> "none"]
  /\ cur = [t \in Tasks |-> "none"]
  /\ pc = [t \in Tasks |-> "idle"]
  /\ m_fn \in [Tasks -> Fns]
  /\ m_pc = [t \in Tasks |-> 0]
  /\ lastWriter = [q \in Pins |-> "setup"]
  /\ fbHeld = {}
  /\ heapLive = {}
  /\ StreamIdle
  /\ CaptureIdle

OverlapNext ==
  \/ \E t \in Tasks : LedcWriteStep(t)
  \/ \E t \in Tasks : RobotReturn(t)

OverlapSpec == OverlapInit /\ [][OverlapNext]_vars


\* ------------------------------------------------------------------- claims
Calls(log, c) == SelectSeq(log, LAMBDA e : e.call = c)
Converted(log) == SelectSeq(log, LAMBDA e : e.call = "frame2jpg" /\ e.ok)
WriteKinds == {"hdr", "body", "bnd"}
\* Between two iterations of the stream loop, or about to return.
StreamAtEnd == s_pc \in {"get", "done"} /\ sLog # <<>>

\* C1: in stream_handler every successful esp_camera_fb_get is matched by
\* exactly one esp_camera_fb_return of that same buffer before the next
\* acquire and before the return, on every path; a failed acquire is
\* followed by no release.
C1_OneReleasePerAcquire ==
  LET rets == Calls(sLog, "fb_return") IN
    /\ Len(rets) <= 1
    /\ \A i \in 1..Len(rets) :
         rets[i].valid /\ sLog[1].ok /\ rets[i].ptr = sLog[1].ptr
    /\ StreamAtEnd => Len(rets) = (IF sLog[1].ok THEN 1 ELSE 0)
    /\ s_pc \in {"get", "done"} => fbHeld = {}

C1_Witness ==
  /\ s_pc = "done" /\ sIters >= 1 /\ sFail \in WriteKinds
  /\ Len(Calls(sLog, "fb_return")) = 1

\* C2: when N iterations succeed and a chunk write fails in iteration N+1,
\* the loop has completed exactly N iterations and made exactly N+1 acquire
\* calls, holds the error, and goes on to return without acquiring again.
C2_StopsAtFailedWrite ==
  sFail \in WriteKinds =>
    /\ sAcqCalls = sIters + 1
    /\ s_res = ESP_FAIL
    /\ s_pc \in {"body", "bnd", "cleanup", "done"}

C2_Witness ==
  s_pc = "done" /\ sFail = "bnd" /\ sIters = 2 /\ sAcqCalls = 3

\* C3: every buffer a successful frame2jpg produced, in stream_handler and
\* in capture_handler, is freed exactly once before the next acquire or the
\* return, whether its write succeeded or failed; free is never given a
\* frame buffer's bytes nor a block that is not live.
FreesMatch(log) ==
  LET frees == Calls(log, "free") IN
    /\ Len(frees) <= 1
    /\ Len(Converted(log)) <= 1
    /\ \A i \in 1..Len(frees) :
         /\ frees[i].ptr.kind = "heap"
         /\ frees[i].valid
         /\ Converted(log) # <<>>
         /\ frees[i].ptr = Converted(log)[1].ptr

AllFreed(log) == Len(Calls(log, "free")) = Len(Converted(log))

C3_ConvertedFreedOnce ==
  /\ FreesMatch(sLog)
  /\ FreesMatch(cLog)
  /\ s_pc \in {"get", "done"} => AllFreed(sLog)
  /\ c_pc = "done" => AllFreed(cLog)

C3_Witness ==
  /\ s_pc = "done" /\ sFail = "body" /\ Len(Calls(sLog, "free")) = 1
  /\ c_pc = "done" /\ c_res = ESP_OK /\ Len(Calls(cLog, "free")) = 1

\* C4: every part header written on a stream connection, the first one
\* included, has the boundary marker written immediately before it.
C4_BoundaryBeforeHeader ==
  \A i \in 1..Len(wire) :
    wire[i] = "hdr" => (i > 1 /\ wire[i - 1] = "bnd")


Port80 == ServerOf("go")
StreamLooping == StreamRunning /\ s_pc \notin {"idle", "done"}
\* What the handler of control uri u has done once it is about to answer.
Effect(u) ==
  IF u \in DirUris
    THEN m_pc[Port80] = 5 /\ pwm = RunFn(HandlerFn(u), speed, pwm)
    ELSE led = (IF u = "ledon" THEN ledon_handler ELSE ledoff_handler)

\* C5: a control request that reaches port 80 while the stream loop runs on
\* port 81 is dispatched, its motor or GPIO writes are performed and its
\* acknowledgement is sent, under fair scheduling of the two server tasks
\* and whether or not the stream loop ever ends.
C5_ControlServedBesideStream ==
  /\ (req[Port80] \in ControlUris /\ StreamLooping)
       ~> (req[Port80] = "none" /\ cur[Port80] \in ControlUris)
  /\ (cur[Port80] \in ControlUris)
       ~> (pc[Port80] = "send" /\ Effect(cur[Port80]))
  /\ (pc[Port80] = "send") ~> (pc[Port80] = "idle")

C5_Witness ==
  /\ StreamLooping /\ sIters >= 1
  /\ cur[Port80] \in DirUris /\ pc[Port80] = "send" /\ Effect(cur[Port80])

AllReturned == \A t \in Tasks : m_fn[t] \in Fns /\ m_pc[t] = 5
\* The duty robot_* function fn leaves on pin q.
Duty(fn, spd, q) == RunFn(fn, spd, robot_setup)[q]

C7_FailuresSend500 ==
  (c_pc = "done"
     /\ (~cLog[1].ok
           \/ \E i \in 1..Len(cLog) :
                cLog[i].call = "frame2jpg" /\ ~cLog[i].ok))
  => (Calls(cLog, "send_500") # <<>> /\ Calls(cLog, "send") = <<>>)

\* C8: in capture_handler a successfully acquired frame buffer is released
\* exactly once before the return on every branch, as the last call, after
\* the send or conversion that reads it; a failed acquire releases nothing.
C8_CaptureReleasesOnce ==
  LET rets == Calls(cLog, "fb_return") IN
    /\ Len(rets) <= 1
    /\ \A i \in 1..Len(rets) :
         rets[i].valid /\ cLog[1].ok /\ rets[i].ptr = cLog[1].ptr
    /\ rets # <<>> => cLog[Len(cLog)].call = "fb_return"
    /\ \A i \in 1..Len(cLog) : cLog[i].call = "send" => cLog[i].valid
    /\ c_pc = "done" => Len(rets) = (IF cLog[1].ok THEN 1 ELSE 0)

C8_Witness ==
  /\ c_pc = "done"
  /\ \E i \in 1..Len(cLog) : cLog[i].call = "frame2jpg" /\ ~cLog[i].ok
  /\ Len(Calls(cLog, "fb_return")) = 1

\* C9: with speed nonzero, a finished directional command leaves exactly two
\* of the four channels at speed and the other two at 0; a finished
\* robot_stop leaves all four at 0; whatever the channels held before.
C9_TwoChannelsDriven ==
  \A t \in Tasks :
    (m_fn[t] \in Fns /\ m_pc[t] = 5) =>
      IF m_fn[t] = "robot_stop"
        THEN \A q \in Pins : pwm[q] = 0
        ELSE speed # 0 =>
               /\ Cardinality({q \in Pins : pwm[q] = speed}) = 2
               /\ Cardinality({q \in Pins : pwm[q] = 0}) = 2

C9_Witness ==
  /\ speed = MaxDuty
  /\ m_fn[Port80] = "robot_right" /\ m_pc[Port80] = 5
  /\ req[Port80] = "stop"

\* The handler of uri u has made its writes and is about to answer.
Answering(u) == cur[Port80] = u /\ pc[Port80] = "send"
Drives(on) ==
  \A q \in Pins : pwm[q] = (IF q \in on THEN speed ELSE 0)

\* C10: /go drives LEFT_M1 and RIGHT_M1, /back drives LEFT_M0 and RIGHT_M0,
\* /left and /right drive one forward and one backward channel on opposite
\* sides.
C10_ForwardDrivesForwardPins ==
  /\ Answering("go") => Drives({LEFT_M1, RIGHT_M1})
  /\ Answering("back") => Drives({LEFT_M0, RIGHT_M0})
  /\ (Answering("left") \/ Answering("right")) =>
       (Drives({LEFT_M1, RIGHT_M0}) \/ Drives({LEFT_M0, RIGHT_M1}))

\* C11: in capture_handler, after a successful acquire, the body sent for a
\* JPEG frame is the frame's bytes with the frame's length, the body sent for
\* a raw frame is the buffer and length frame2jpg produced, and a request
\* whose frame is JPEG or was converted is answered with exactly one body.
C11_BodyIsFrameOrConverted ==
  LET sends == Calls(cLog, "send") IN
    /\ Len(sends) <= 1
    /\ \A i \in 1..Len(sends) :
         /\ cLog[1].call = "fb_get" /\ cLog[1].ok
         /\ IF c_fb.format = PIXFORMAT_JPEG
              THEN /\ sends[i].ptr = cLog[1].ptr
                   /\ sends[i].len = cLog[1].len
              ELSE /\ Converted(cLog) # <<>>
                   /\ sends[i].ptr = Converted(cLog)[1].ptr
                   /\ sends[i].len = Converted(cLog)[1].len
    /\ (c_pc = "done" /\ cLog[1].ok
          /\ (c_fb.format = PIXFORMAT_JPEG \/ Converted(cLog) # <<>>))
         => Len(sends) = 1

C11_Witness ==
  /\ c_pc = "done" /\ c_fb.format = PIXFORMAT_RAW
  /\ Len(Calls(cLog, "send")) = 1
  /\ Calls(cLog, "send")[1].ptr.kind = "heap"
  /\ Calls(cLog, "send")[1].len = MaxLen

\* The four functions that drive the motors, and the channels a state drives.
MoveFns == Fns \ {"robot_stop"}
NonZero(p) == {q \in Pins : p[q] # 0}

\* C12: with speed nonzero, the set of nonzero channels a finished
\* directional command has left differs from the set every other directional
\* command leaves, and the sets of any two distinct directional commands
\* differ, whatever the channels held before.
C12_DirectionsDiffer ==
  speed # 0 =>
    /\ \A f, g \in MoveFns :
         f # g => NonZero(RunFn(f, speed, pwm)) # NonZero(RunFn(g, speed, pwm))
    /\ \A t \in Tasks :
         (m_fn[t] \in MoveFns /\ m_pc[t] = 5) =>
           \A g \in MoveFns \ {m_fn[t]} :
             NonZero(pwm) # NonZero(RunFn(g, speed, pwm))

C12_Witness ==
  /\ speed = DefaultSpeed
  /\ m_fn[Port80] = "robot_fwd" /\ m_pc[Port80] = 5
  /\ NonZero(pwm) = {LEFT_M0, RIGHT_M1}
  /\ req[Port80] = "right"

\* The calls of the stream loop that can fail.
StreamOps == {"fb_get", "frame2jpg"} \cup WriteKinds

\* C13: in stream_handler the first failed acquire, conversion or chunk write
\* is the last acquire, conversion or chunk write made on that connection:
\* the error is held from then on, no chunk follows a failed call, and the
\* loop is never again at an acquire or a conversion.
C13_FailAbsorbing ==
  /\ (sFail # "none") <=> (s_res = ESP_FAIL)
  /\ sFail # "none" => s_pc \notin {"settype", "get", "convert"}
  /\ \A i \in 1..Len(sLog) :
       (sLog[i].call \in StreamOps /\ ~sLog[i].ok) =>
         /\ sFail # "none"
         /\ \A j \in (i + 1)..Len(sLog) : sLog[j].call \notin StreamOps
  /\ sFail \in WriteKinds =>
       /\ wire # <<>> /\ wire[Len(wire)] = sFail
       /\ Calls(sLog, sFail) # <<>> /\ ~Calls(sLog, sFail)[1].ok
  /\ sFail \in {"acquire", "convert"} =>
       \A k \in WriteKinds : Calls(sLog, k) = <<>>

C13_Witness ==
  /\ s_pc = "done" /\ sFail = "hdr" /\ sIters >= 1
  /\ Calls(sLog, "body") = <<>> /\ Calls(sLog, "bnd") = <<>>

\* Where in a log the calls that hand a buffer back are.
Releases(log) ==
  {i \in 1..Len(log) : log[i].call \in {"fb_return", "free"}}

\* C14: in stream_handler the body write is the only chunk write that reads
\* frame bytes, and whenever it is made the buffer it reads is still held or
\* live; a JPEG frame's release comes after every chunk write of its
\* iteration, and no body write follows a release or free of what it reads.
C14_NoWriteAfterRelease ==
  /\ \A i \in 1..Len(sLog) :
       /\ sLog[i].call = "body" =>
            /\ sLog[i].valid
            /\ sLog[i].ptr.kind \in {"fb", "heap"}
            /\ \A j \in Releases(sLog) : sLog[j].ptr = sLog[i].ptr => i < j
       /\ sLog[i].call \in {"hdr", "bnd"} => sLog[i].ptr = NullPtr
  /\ (sLog # <<>> /\ sLog[1].ok /\ Calls(sLog, "frame2jpg") = <<>>) =>
       \A j \in Releases(sLog) :
         /\ sLog[j].call = "fb_return"
         /\ \A i \in 1..Len(sLog) : sLog[i].call \in WriteKinds => i < j

C14_Witness ==
  /\ s_pc = "get" /\ sIters >= 1
  /\ Calls(sLog, "body") # <<>>
  /\ Calls(sLog, "body")[1].ptr.kind = "fb"
  /\ Len(Calls(sLog, "bnd")) = 1
  /\ sLog[Len(sLog)].call = "fb_return"
  /\ c_pc = "fb_return"

\* C15: in stream_handler a frame2jpg attempt on a raw frame, successful or
\* not, is followed at once by the release of that frame, before any chunk
\* write; after a failed attempt the iteration writes no chunk and frees
\* nothing, the loop is left and the handler returns the error.
C15_RawReleasedAfterConvert ==
  \A i \in 1..Len(sLog) :
    sLog[i].call = "frame2jpg" =>
      /\ i = 2 /\ sLog[1].call = "fb_get" /\ sLog[1].ok
      /\ Len(sLog) >= 3
      /\ sLog[3].call = "fb_return" /\ sLog[3].valid
      /\ sLog[3].ptr = sLog[1].ptr
      /\ s_fb = NoFrame
      /\ ~sLog[i].ok =>
           /\ Len(sLog) = 3
           /\ s_res = ESP_FAIL
           /\ s_pc \in {"hdr", "body", "bnd", "cleanup", "done"}
           /\ sAcqCalls = sIters + 1

C15_Witness ==
  /\ s_pc = "done" /\ s_res = ESP_FAIL /\ sIters >= 1
  /\ Len(sLog) = 3 /\ sLog[2].call = "frame2jpg" /\ ~sLog[2].ok
  /\ sLog[3].call = "fb_return"

\* C16: stream_handler never returns ESP_OK: whenever it is about to return,
\* some call has failed and res holds the error.  An iteration that ends
\* with res == ESP_OK goes back to esp_camera_fb_get, and that acquire is
\* then made.
C16_NoSuccessExit ==
  /\ [](s_pc = "done" => (s_res = ESP_FAIL /\ sFail # "none"))
  /\ [][(s_pc = "cleanup" /\ s_res = ESP_OK /\ s_pc' # s_pc)
         => (s_pc' = "get")]_vars
  /\ [][(s_pc' = "done") => (s_res' # ESP_OK)]_vars
  /\ \A n \in 0..(MaxFrames - 1) :
       (s_pc = "get" /\ sAcqCalls = n) ~> (sAcqCalls = n + 1)

C16_Witness ==
  /\ sIters = 2 /\ sAcqCalls = 3 /\ sFail = "none"
  /\ s_res = ESP_OK /\ s_pc = "body"

\* Lengths a frame can have on the 32-bit target, of 1 to 10 digits.
FormatSamples == {0, 7, 10, 4096, 65535, 1000000, 2147483647}
\* The byte count of the frame of the current iteration.
FrameLen(log) ==
  IF Converted(log) # <<>> THEN Converted(log)[1].len ELSE log[1].len

\* C17: in stream_handler the Content-Length written in a part header is the
\* byte count given to the body write of the same iteration, and both are
\* the length of the frame of that iteration: the acquired frame's length
\* for a JPEG frame, frame2jpg's output length for a converted one.  The
\* header buffer has room for every length.
C17_ContentLengthIsBodyLength ==
  /\ \A i \in 1..Len(sLog) :
       /\ sLog[i].call = "hdr" => sLog[i].len = FrameLen(sLog)
       /\ sLog[i].call = "body" =>
            /\ sLog[i].len = FrameLen(sLog)
            /\ i > 1 /\ sLog[i - 1].call = "hdr"
            /\ sLog[i - 1].len = sLog[i].len
            /\ s_part_len = sLog[i].len
  /\ \A n \in FormatSamples :
       /\ ContentLength(snprintf(PartBufSize, n)) = n
       /\ snprintf(PartBufSize, n).hlen < PartBufSize

C17_Witness ==
  /\ s_pc = "get" /\ sIters = 2
  /\ Converted(sLog) # <<>> /\ Converted(sLog)[1].len = 1
  /\ Calls(sLog, "body") # <<>> /\ Calls(sLog, "body")[1].len = 1
  /\ Calls(sLog, "hdr")[1].len = 1

\* C18: with speed = 150 a finished /go leaves LEFT_M1 = 150, LEFT_M0 = 0,
\* RIGHT_M1 = 0 and RIGHT_M0 = 150; with speed = 0 every finished direction
\* command leaves all four channels 0, as robot_stop does.
C18_ForwardExample ==
  /\ (speed = DefaultSpeed /\ Answering("go")) =>
       pwm = [q \in Pins |-> IF q \in {LEFT_M1, RIGHT_M0} THEN 150 ELSE 0]
  /\ (speed = 0 /\ \E u \in DirUris : Answering(u)) =>
       pwm = RunFn("robot_stop", speed, pwm)

\* The channel state robot_* function fn writes, given speed alone.
Pattern(fn, spd) == [q \in Pins |-> Duty(fn, spd, q)]
\* Task t is inside, or has just left, a robot_* call.
InCall(t) == m_fn[t] \in Fns

\* C19: with requests handled one at a time, a finished direction command
\* leaves the channels in the state given by that command and speed alone,
\* whatever was commanded before, and all 0 for stop; the channels change
\* only inside a robot_* call, so that state lasts until the next direction
\* command; a command repeated on the state it left changes no channel.
C19_StatelessIdempotent ==
  /\ [](\A t \in Tasks :
          (InCall(t) /\ m_pc[t] >= 4) =>
            /\ pwm = Pattern(m_fn[t], speed)
            /\ pwm = RunFn(m_fn[t], speed, pwm)
            /\ m_fn[t] = "robot_stop" => \A q \in Pins : pwm[q] = 0)
  /\ [][pwm' # pwm =>
          \E t \in Tasks : InCall(t) /\ m_pc'[t] = m_pc[t] + 1]_vars
  /\ [][\A t \in Tasks :
          (InCall(t) /\ pwm = Pattern(m_fn[t], speed)) => pwm' = pwm]_vars

C19_Witness ==
  /\ speed = MaxDuty
  /\ m_fn[Port80] = "robot_back" /\ m_pc[Port80] = 0
  /\ pwm = Pattern("robot_back", speed)
  /\ req[Port80] = "stop"

\* C20: speed is never written; a PWM channel changes only in a step taken
\* while port 80 runs a direction handler, and such a step leaves the light
\* GPIO alone; the light GPIO changes only in a step taken while port 80
\* runs /ledon or /ledoff, to that handler's level, and such a step leaves
\* the channels alone; no step of index_handler, capture_handler or
\* stream_handler changes a channel or the light GPIO.
C20_EndpointsWriteOwnOutput ==
  [][/\ speed' = speed
     /\ pwm' # pwm => (cur[Port80] \in DirUris /\ led' = led)
     /\ led' # led =>
          /\ cur[Port80] \in LedUris /\ pwm' = pwm
          /\ led' = (IF cur[Port80] = "ledon" THEN ledon_handler
                     ELSE ledoff_handler)
     /\ (s_pc' # s_pc \/ c_pc' # c_pc \/ cur[Port80] \in {"index", "capture"})
          => (pwm' = pwm /\ led' = led)]_vars

C20_Witness ==
  /\ StreamLooping /\ sIters >= 1
  /\ cur[Port80] = "capture" /\ c_pc = "fb_return"
  /\ led = ledon_handler
  /\ pwm = Pattern("robot_right", speed)

====
